---------------------------- MODULE Spec2Model ----------------------------
(***************************************************************************)
(* A model of NekoFlare (src/app.py): the UCB bandit model (UCBManager),   *)
(* the candidate generator (SmartGenerator.generate) and the two-stage     *)
(* probe engine (Scanner.run, Scanner.smart_speed_test, main).             *)
(*                                                                         *)
(* Numbers.  Python floats are modelled as exact rationals, records        *)
(* [n |-> numerator, d |-> denominator] in lowest terms with d > 0.  The   *)
(* transcendental part of get_score (math.log, math.sqrt) is computed in   *)
(* thousandths, rounded up at every step, so that the modelled score is an *)
(* upper bound of the real one, at most a few thousandths above it.        *)
(*                                                                         *)
(* Addresses.  An IPv4 address is its 32-bit integer value; a network is a *)
(* record [base, prefixlen].  The key of a group in the model store is the *)
(* integer of the /24 network address (the code uses its dotted string).   *)
(***************************************************************************)
EXTENDS Integers, Sequences, FiniteSets, TLC

VARIABLES
    data,        \* UCBManager.data: total_runs, launch_count, subnets
    decay_rate,  \* UCBManager.decay_rate
    disk,        \* the content of MODEL_FILE (ucb_model.json)
    last,        \* the most recent UCBManager call: what it did and the model before it
    ops,         \* number of UCBManager calls made so far
    reward_args, \* update()'s latency, speed, is_loss, tcp_only, for the reward alone
    reward_ret,  \* update()'s current_reward: <<>> before it is computed, <<r>> after
    pc,          \* where main() is
    config,      \* cm.config: speed_test_range, min_speed_target
    ranges,      \* whether the range files gave any network: "none" or "some"
    targets,     \* Scanner.targets, the list generate() returned
    futs,        \* indices of the submitted probes that have not completed yet
    valid,       \* run()'s valid: the results that are not lost, in completion order
    results,     \* Scanner.results
    cands,       \* smart_speed_test()'s cands, each with its speed once probed
    idx,         \* index in cands of the next candidate to probe
    final,       \* smart_speed_test()'s final
    high_quality,  \* smart_speed_test()'s high_quality, the results written out
    saves,       \* number of UCBManager.save calls of this run
    exit_code,   \* the process's exit status, -1 while it runs
    cidrs_v4,    \* generate()'s cidrs_v4
    cidrs_v6,    \* generate()'s cidrs_v6
    max_total_count,  \* generate()'s max_total_count
    all_subnets, \* generate()'s all_subnets; on the warm path in the order of scored_subnets
    pos,         \* index in all_subnets of the loop's current subnet (rank + 1)
    slots,       \* iterations left of the innermost counted loop (real_count, limit)
    picked,      \* generate()'s picked
    generated_count,  \* generate()'s generated_count
    quotas,      \* the count given to each rank so far, in rank order
    pool,        \* the executor's futures: "queued", "running" or the IpResult _tcp returned
    upd,         \* the locals of the update() call the main thread is in, <<>> outside it
    applied      \* the results whose update() call has returned, in call order

modelVars == <<data, decay_rate, disk>>
apiVars == <<last, ops>>
rewardVars == <<reward_args, reward_ret>>
poolVars == <<pool, upd, applied>>
scanVars == <<targets, futs, valid, results>>
testVars == <<cands, idx, final, high_quality>>
runVars == <<pc, config, ranges, scanVars, testVars, saves, exit_code>>
genArgs == <<cidrs_v4, cidrs_v6, max_total_count>>
genVars == <<genArgs, all_subnets, pos, slots, picked, generated_count, quotas>>

vars == <<modelVars, apiVars, rewardVars, poolVars, runVars, genVars>>

-----------------------------------------------------------------------------
(* Bounds of the model *)

\* the number of UCBManager.update / save calls explored
MaxOps == 4

\* the longest list of targets a run probes
MaxTargets == 3

\* the largest number of Stage 2 candidates in the selection
MaxCands == 6

\* the largest max_total_count generate() is called with, IPv6 runs apart
MaxCount == 3

\* the number of outcomes explored of one random.randint draw
MaxDraws == 3

-----------------------------------------------------------------------------
(* Exact rational arithmetic standing for Python's float arithmetic *)

Abs(x) == IF x < 0 THEN -x ELSE x

RECURSIVE GCD(_, _)
GCD(a, b) == IF b = 0 THEN a ELSE GCD(b, a % b)

R(n, d) ==
    LET g == GCD(Abs(n), d)
    IN  [n |-> n \div g, d |-> d \div g]

Zero == R(0, 1)
One == R(1, 1)

Add(a, b) ==
    LET g == GCD(a.d, b.d)
        l == a.d * (b.d \div g)
    IN  R(a.n * (l \div a.d) + b.n * (l \div b.d), l)

Mul(a, b) ==
    LET g1 == GCD(Abs(a.n), b.d)
        g2 == GCD(Abs(b.n), a.d)
    IN  R((a.n \div g1) * (b.n \div g2), (a.d \div g2) * (b.d \div g1))

\* a / b for b > 0
Div(a, b) == Mul(a, [n |-> b.d, d |-> b.n])

Sub(a, b) == Add(a, [n |-> -b.n, d |-> b.d])

Lt(a, b) == a.n * b.d < b.n * a.d
Le(a, b) == a.n * b.d <= b.n * a.d

RMin(a, b) == IF Lt(b, a) THEN b ELSE a
RMax(a, b) == IF Lt(a, b) THEN b ELSE a

\* the least integer >= a / b, for b > 0
CeilDiv(a, b) == -((-a) \div b)

-----------------------------------------------------------------------------
(* Addresses *)

\* the /24 group of an IPv4 address: IPv4Network(ip + "/24", strict=False).network_address
NetOf(addr) == (addr \div 256) * 256

V4(addr) == [kind |-> "v4", addr |-> addr]
\* an address string holding ':' (IPv6)
V6(addr) == [kind |-> "v6", addr |-> addr]
\* a string that ipaddress cannot parse
BadIp == [kind |-> "bad", addr |-> 0]

-----------------------------------------------------------------------------
(* UCBManager *)

\* DEFAULT_CONFIG["decay_rate"] = 0.85, as a fraction
DefaultDecayNum == 17
DefaultDecayDen == 20
DefaultDecay == R(DefaultDecayNum, DefaultDecayDen)

\* the decay rates (config.json's decay_rate) the model is run with
DecayRates == {DefaultDecay, R(1, 4)}

\* the data UCBManager.__init__ builds before load()
EmptyData == [total_runs |-> Zero, launch_count |-> 0, subnets |-> <<>>]

\* MODEL_FILE: absent, or holding a complete document, or a damaged one
NoFile == [state |-> "missing"]
FullFile(d) == [state |-> "full", content |-> d]
EmptyFile == [state |-> "empty"]
PartialFile == [state |-> "partial"]

\* load(): a missing or unparsable file leaves the default data in place
LoadData(file) == IF file.state = "full" THEN file.content ELSE EmptyData

\* __init__: load, then count this launch
InitData(file) ==
    LET d == LoadData(file)
    IN  [d EXCEPT !.launch_count = @ + 1]

HasNet(d, net) == net \in DOMAIN d.subnets

AvgReward(record) == Div(record.total_reward, record.count)

r_latency(latency) ==
    Mul(R(3, 10),
        Sub(One, RMin(Div(RMax(Sub(latency, R(50, 1)), Zero), R(150, 1)), One)))

r_speed(speed) == Mul(R(7, 10), RMin(Div(speed, R(10, 1)), One))

\* current_reward of update()
Reward(latency, speed, is_loss, tcp_only) ==
    IF is_loss THEN Zero
    ELSE IF tcp_only THEN r_latency(latency)
    ELSE Add(r_latency(latency), r_speed(speed))

\* impact_weight with count >= 2.0 for count > 2.0
ImpactWeight_AtTwo(record, current_reward) ==
    IF /\ Le(R(2, 1), record.count)
       /\ Lt(R(3, 5), AvgReward(record))
       /\ Lt(current_reward, R(1, 10))
    THEN R(1, 5)
    ELSE One

\* impact_weight of update(), for the record as it is before the sample
ImpactWeight(record, current_reward) ==
    IF /\ Lt(R(2, 1), record.count)
       /\ Lt(R(3, 5), AvgReward(record))
       /\ Lt(current_reward, R(1, 10))
    THEN R(1, 5)
    ELSE One

NewRecord == [count |-> Zero, total_reward |-> Zero]

RecordOf(d, net) == IF HasNet(d, net) THEN d.subnets[net] ELSE NewRecord

\* update() with neither "if ':' in ip: return" nor "except: return"
Ignored_Never(ip) == FALSE

\* whether update() returns at once: an IPv6 or unparsable address
Ignored(ip) == ip.kind # "v4"

\* update(): the data after the call
UpdateData(d, ip, latency, speed, is_loss, tcp_only) ==
    IF Ignored(ip) THEN d
    ELSE
        LET net == NetOf(ip.addr)
            current_reward == Reward(latency, speed, is_loss, tcp_only)
            record == RecordOf(d, net)
            impact_weight == ImpactWeight(record, current_reward)
            updated == [count |-> Add(record.count, impact_weight),
                        total_reward |-> Add(record.total_reward,
                                             Mul(current_reward, impact_weight))]
        IN  [d EXCEPT
                !.subnets = [k \in DOMAIN d.subnets \cup {net} |->
                                IF k = net THEN updated ELSE d.subnets[k]],
                !.total_runs = Add(d.total_runs, impact_weight)]

\* save(): one record after the decay
Decayed(record, rate) ==
    [count |-> Mul(record.count, rate),
     total_reward |-> Mul(record.total_reward, rate)]

\* to_remove with "or" for "and"
ToRemove_Or(record) ==
    LET avg == IF Lt(Zero, record.count) THEN AvgReward(record) ELSE Zero
    IN  Lt(record.count, R(1, 2)) \/ Lt(avg, R(1, 5))

\* save(): whether a decayed record goes to to_remove
ToRemove(record) ==
    LET avg == IF Lt(Zero, record.count) THEN AvgReward(record) ELSE Zero
    IN  Lt(record.count, R(1, 2)) /\ Lt(avg, R(1, 5))

\* save() with total_runs left as it is
SaveData_RunsKept(d, rate) ==
    LET decayed == [k \in DOMAIN d.subnets |-> Decayed(d.subnets[k], rate)]
        kept == {k \in DOMAIN decayed : ~ToRemove(decayed[k])}
    IN  [d EXCEPT !.subnets = [k \in kept |-> decayed[k]]]

\* save(): the data after the decay and the removal
SaveData(d, rate) ==
    LET decayed == [k \in DOMAIN d.subnets |-> Decayed(d.subnets[k], rate)]
        kept == {k \in DOMAIN decayed : ~ToRemove(decayed[k])}
    IN  [d EXCEPT
            !.total_runs = Mul(d.total_runs, rate),
            !.subnets = [k \in kept |-> decayed[k]]]

\* is_cold_start()
ColdStartLaunches == 3
ColdStartGroups == 100

\* is_cold_start() with "launch < 3" for "launch <= 3"
is_cold_start_FewerLaunches(d) ==
    d.launch_count < ColdStartLaunches
        \/ Cardinality(DOMAIN d.subnets) < ColdStartGroups

is_cold_start(d) ==
    d.launch_count <= ColdStartLaunches
        \/ Cardinality(DOMAIN d.subnets) < ColdStartGroups

-----------------------------------------------------------------------------
(* get_score, in thousandths and rounded up *)

\* ln x in thousandths for a rational x >= 1, rounded up: halve x down to
\* [1, 2), adding ln 2 < 0.694 each time, then ln x = 2 (z + z^3/3 + ...) with z = (x - 1) / (x + 1) < 1/3,
\* whose terms after the second sum to less than 0.002
RECURSIVE LnMilli(_)
LnMilli(x) ==
    IF Le(R(2, 1), x) THEN 694 + LnMilli(Mul(x, R(1, 2)))
    ELSE IF x.n = x.d THEN 0
    ELSE
        LET z == CeilDiv(1000 * (x.n - x.d), x.n + x.d)
            z3 == CeilDiv(z * z * z, 3000000)
        IN  2 * (z + z3) + 2

\* the least r in lo..hi with r * r >= k
RECURSIVE SqrtSearch(_, _, _)
SqrtSearch(k, lo, hi) ==
    IF lo >= hi THEN lo
    ELSE
        LET mid == (lo + hi) \div 2
        IN  IF mid * mid >= k THEN SqrtSearch(k, lo, mid)
            ELSE SqrtSearch(k, mid + 1, hi)

\* the least integer >= sqrt(k), for 0 <= k < 2^30
SqrtUp(k) == SqrtSearch(k, 0, 32768)

\* the sentinel 9999.0, in thousandths
Sentinel == 9999000

\* get_score's avg_reward + exploration, in thousandths
UcbScore(d, subnet_ip) ==
    LET record == d.subnets[subnet_ip]
        n == RMax(d.total_runs, One)
        nj == record.count
        avg_reward == AvgReward(record)
        avgMilli == CeilDiv(1000 * avg_reward.n, avg_reward.d)
        \* 2 * ln(n) / nj, in thousandths
        ratio == CeilDiv(2 * LnMilli(n) * nj.d, nj.n)
        exploration == SqrtUp(1000 * ratio)
    IN  avgMilli + exploration

\* get_score with the count test left out
get_score_NoCountTest(d, subnet_ip) ==
    IF ~HasNet(d, subnet_ip) THEN Sentinel ELSE UcbScore(d, subnet_ip)

\* get_score(subnet_ip) in thousandths
get_score(d, subnet_ip) ==
    IF ~HasNet(d, subnet_ip) \/ Lt(d.subnets[subnet_ip].count, R(1, 10))
    THEN Sentinel
    ELSE UcbScore(d, subnet_ip)

-----------------------------------------------------------------------------
(* The UCBManager interface: any sequence of update and save calls on a     *)
(* manager constructed with no model file                                   *)

\* the addresses update() is called with: two /24 groups, an IPv6 address
\* and an unparsable string
IPs == {V4(257), V4(513), V6(1), BadIp}
Latencies == {R(50, 1), R(200, 1)}
Speeds == {Zero, R(10, 1)}

\* what open(MODEL_FILE, 'w') and json.dump can do: complete, or raise
\* before the file is opened (swallowed by the bare except)
WriteOutcomes == {"ok", "open_failed"}

WriteModel(file, d, outcome) ==
    IF outcome = "ok" THEN FullFile(d) ELSE file

\* no UCBManager call has been made
ApiIdle == last = [op |-> "init"] /\ ops = 0
\* no reward is being computed
RewardIdle == reward_args = <<>> /\ reward_ret = <<>>

\* no probe has been submitted
PoolIdle == pool = <<>> /\ upd = <<>> /\ applied = <<>>

\* main() is not running
RunIdle ==
    /\ pc = "idle"
    /\ config = <<>>
    /\ ranges = "none"
    /\ targets = <<>>
    /\ futs = {}
    /\ valid = <<>>
    /\ results = <<>>
    /\ cands = <<>>
    /\ idx = 0
    /\ final = <<>>
    /\ high_quality = <<>>
    /\ saves = 0
    /\ exit_code = -1

\* generate() is not running
GenLocalsIdle ==
    /\ all_subnets = <<>>
    /\ pos = 0
    /\ slots = 0
    /\ picked = {}
    /\ generated_count = 0
    /\ quotas = <<>>

GenIdle ==
    /\ cidrs_v4 = <<>>
    /\ cidrs_v6 = <<>>
    /\ max_total_count = 0
    /\ GenLocalsIdle

Init ==
    /\ decay_rate \in DecayRates
    /\ disk = NoFile
    /\ data = InitData(NoFile)
    /\ ApiIdle
    /\ RewardIdle
    /\ PoolIdle
    /\ RunIdle
    /\ GenIdle

Update(ip, latency, speed, is_loss, tcp_only) ==
    /\ ops < MaxOps
    /\ data' = UpdateData(data, ip, latency, speed, is_loss, tcp_only)
    /\ last' = [op |-> "update", ip |-> ip,
                reward |-> Reward(latency, speed, is_loss, tcp_only),
                prev |-> data]
    /\ ops' = ops + 1
    /\ UNCHANGED <<decay_rate, disk, rewardVars, poolVars, runVars, genVars>>

Save(outcome) ==
    /\ ops < MaxOps
    /\ data' = SaveData(data, decay_rate)
    /\ disk' = WriteModel(disk, data', outcome)
    /\ last' = [op |-> "save", prev |-> data]
    /\ ops' = ops + 1
    /\ UNCHANGED <<decay_rate, rewardVars, poolVars, runVars, genVars>>

Next ==
    \/ \E ip \in IPs, latency \in Latencies, speed \in Speeds,
          is_loss \in BOOLEAN, tcp_only \in BOOLEAN :
            Update(ip, latency, speed, is_loss, tcp_only)
    \/ \E outcome \in WriteOutcomes : Save(outcome)

Spec == Init /\ [][Next]_vars

-----------------------------------------------------------------------------
(* The reward of update() as a function of its arguments alone: any float   *)
(* can be passed for latency and speed                                      *)

RewardLatencies == {R(-10, 1), Zero, R(50, 1), R(125, 1), R(200, 1), R(300, 1)}
RewardSpeeds == {R(-5, 1), Zero, R(5, 1), R(10, 1), R(20, 1)}

InitReward ==
    /\ reward_args \in [latency : RewardLatencies, speed : RewardSpeeds,
                        is_loss : BOOLEAN, tcp_only : BOOLEAN]
    /\ reward_ret = <<>>
    /\ PoolIdle
    /\ decay_rate = DefaultDecay
    /\ disk = NoFile
    /\ data = InitData(NoFile)
    /\ ApiIdle
    /\ RunIdle
    /\ GenIdle

ComputeReward ==
    /\ reward_ret = <<>>
    /\ reward_ret' = <<Reward(reward_args.latency, reward_args.speed,
                                  reward_args.is_loss, reward_args.tcp_only)>>
    /\ UNCHANGED <<reward_args, modelVars, apiVars, poolVars, runVars, genVars>>

NextReward == ComputeReward

SpecReward == InitReward /\ [][NextReward]_vars

-----------------------------------------------------------------------------
(* Scanner and main(): one run of the program                               *)

\* IpResult; id stands for the object's identity
IpResult(id, ip, latency, loss) ==
    [id |-> id, ip |-> ip, latency |-> latency, speed |-> Zero, loss |-> loss]

\* IpResult.__lt__
ResultLt(a, b) ==
    IF a.loss # b.loss THEN ~a.loss ELSE Lt(a.latency, b.latency)

\* list.sort(): a stable insertion of r into the sorted list s
RECURSIVE InsertResult(_, _)
InsertResult(s, r) ==
    IF s = <<>> THEN <<r>>
    ELSE IF ResultLt(r, s[Len(s)]) THEN Append(InsertResult(SubSeq(s, 1, Len(s) - 1), r), s[Len(s)])
    ELSE Append(s, r)

\* valid.sort() leaving valid in completion order
SortResults_Unsorted(s) == s

\* valid.sort()
RECURSIVE SortResults(_)
SortResults(s) ==
    IF s = <<>> THEN <<>>
    ELSE InsertResult(SortResults(SubSeq(s, 1, Len(s) - 1)), s[Len(s)])

\* final.sort(key=lambda x: x.speed, reverse=True): stable, equal speeds keep their order
RECURSIVE InsertBySpeed(_, _)
InsertBySpeed(s, r) ==
    IF s = <<>> THEN <<r>>
    ELSE IF Lt(s[Len(s)].speed, r.speed) THEN Append(InsertBySpeed(SubSeq(s, 1, Len(s) - 1), r), s[Len(s)])
    ELSE Append(s, r)

RECURSIVE SortBySpeed(_)
SortBySpeed(s) ==
    IF s = <<>> THEN <<>>
    ELSE InsertBySpeed(SortBySpeed(SubSeq(s, 1, Len(s) - 1)), s[Len(s)])

\* s[:k]
Prefix(s, k) == SubSeq(s, 1, IF k < Len(s) THEN k ELSE Len(s))

\* the number of results smart_speed_test() fills high_quality up to
Backfill == 5

\* "if s > 0.1: final.append(r)" with the test left out
KeepFinal_All(r) == TRUE

\* smart_speed_test(): whether a probed candidate goes to final
KeepFinal(r) == Lt(R(1, 10), r.speed)

\* smart_speed_test(): high_quality from the sorted final
HighQuality(sorted, target) ==
    LET Qualifies(x) == Le(target, x.speed)
        Remains(x) == ~Le(target, x.speed)
        high == SelectSeq(sorted, Qualifies)
        remain == SelectSeq(sorted, Remains)
    IN  IF Len(high) < Backfill
        THEN high \o Prefix(remain, Backfill - Len(high))
        ELSE high

\* the model a previous run left in MODEL_FILE
PriorData ==
    SaveData(UpdateData(InitData(NoFile), V4(257), R(50, 1), Zero, FALSE, TRUE),
             DefaultDecay)

\* the i-th address of the list generate() returned; every third one is IPv6
Target(i) == IF i % 3 = 0 THEN V6(i) ELSE V4(256 * i + 1)
TargetList(n) == [i \in 1..n |-> Target(i)]

RunSpeeds == {Zero, R(10, 1)}

\* config.json's speed_test_range
SpeedTestRanges == {1, 2}

InitRun ==
    /\ pc = "main"
    /\ decay_rate = DefaultDecay
    /\ disk \in {NoFile, FullFile(PriorData)}
    /\ data = EmptyData
    /\ config \in [speed_test_range : SpeedTestRanges, min_speed_target : {R(5, 1)}]
    /\ ranges \in {"none", "some"}
    /\ targets \in IF ranges = "none" THEN {<<>>}
                   ELSE {TargetList(n) : n \in 0..MaxTargets}
    /\ futs = {}
    /\ valid = <<>>
    /\ results = <<>>
    /\ cands = <<>>
    /\ idx = 0
    /\ final = <<>>
    /\ high_quality = <<>>
    /\ saves = 0
    /\ exit_code = -1
    /\ ApiIdle
    /\ RewardIdle
    /\ PoolIdle
    /\ GenIdle

\* main(): UCBManager(), the range files, generate(), Scanner()
Launch ==
    /\ pc = "main"
    /\ data' = InitData(disk)
    /\ IF ranges = "none"
       THEN pc' = "exited" /\ exit_code' = 1
       ELSE pc' = "run" /\ UNCHANGED exit_code
    /\ UNCHANGED <<decay_rate, disk, apiVars, rewardVars, poolVars, config, ranges,
                   scanVars, testVars, saves,
                   genVars>>

\* run(): return at once without targets, else submit every probe
RunStart ==
    /\ pc = "run"
    /\ IF targets = <<>>
       THEN pc' = "speed_test" /\ UNCHANGED futs
       ELSE pc' = "scan" /\ futs' = 1..Len(targets)
    /\ UNCHANGED <<modelVars, apiVars, rewardVars, poolVars, config, ranges, targets,
                   valid, results, testVars, saves, exit_code,
                   genVars>>

\* run(): as_completed yields probe i with the result of _tcp
ProbeDone(i, loss, latency) ==
    /\ pc = "scan"
    /\ i \in futs
    /\ LET r == IpResult(i, targets[i], IF loss THEN Zero ELSE latency, loss)
       IN  /\ data' = UpdateData(data, r.ip, r.latency, Zero, r.loss, TRUE)
           /\ valid' = IF r.loss THEN valid ELSE Append(valid, r)
    /\ futs' = futs \ {i}
    /\ UNCHANGED <<decay_rate, disk, apiVars, rewardVars, poolVars, pc, config, ranges,
                   targets, results, testVars, saves, exit_code,
                   genVars>>

\* run(): every probe has completed; sort the survivors
RunEnd ==
    /\ pc = "scan"
    /\ futs = {}
    /\ results' = SortResults(valid)
    /\ valid' = results'
    /\ pc' = "speed_test"
    /\ UNCHANGED <<modelVars, apiVars, rewardVars, poolVars, config, ranges, targets,
                   futs, testVars, saves, exit_code,
                   genVars>>

\* smart_speed_test(): take the candidates, return if there are none
SpeedTestStart ==
    /\ pc = "speed_test"
    /\ cands' = Prefix(results, config.speed_test_range)
    /\ IF cands' = <<>>
       THEN pc' = "done" /\ exit_code' = 0 /\ UNCHANGED idx
       ELSE pc' = "stage2" /\ idx' = 1 /\ UNCHANGED exit_code
    /\ UNCHANGED <<modelVars, apiVars, rewardVars, poolVars, config, ranges, scanVars,
                   final, high_quality, saves,
                   genVars>>

\* smart_speed_test(): _http gives speed s for the next candidate
HttpProbe(s) ==
    /\ pc = "stage2"
    /\ idx <= Len(cands)
    /\ LET r == [cands[idx] EXCEPT !.speed = s]
       IN  /\ cands' = [cands EXCEPT ![idx] = r]
           /\ data' = UpdateData(data, r.ip, r.latency, s, FALSE, FALSE)
           /\ final' = IF KeepFinal(r) THEN Append(final, r) ELSE final
    /\ idx' = idx + 1
    /\ UNCHANGED <<decay_rate, disk, apiVars, rewardVars, poolVars, pc, config, ranges,
                   scanVars, high_quality, saves, exit_code,
                   genVars>>

\* save(): the decay and the removal, in memory
SaveDecay ==
    /\ pc = "stage2"
    /\ idx > Len(cands)
    /\ data' = SaveData(data, decay_rate)
    /\ saves' = saves + 1
    /\ pc' = "save_open"
    /\ UNCHANGED <<decay_rate, disk, apiVars, rewardVars, poolVars, config, ranges,
                   scanVars, testVars, exit_code,
                   genVars>>

\* save(): open(MODEL_FILE, 'w') truncates the file, or raises and save() returns
SaveOpen(ok) ==
    /\ pc = "save_open"
    /\ IF ok THEN disk' = EmptyFile /\ pc' = "save_dump"
             ELSE UNCHANGED disk /\ pc' = "select"
    /\ UNCHANGED <<data, decay_rate, apiVars, rewardVars, poolVars, config, ranges,
                   scanVars, testVars, saves, exit_code,
                   genVars>>

\* save(): json.dump writes the document piece by piece
SaveDump ==
    /\ pc = "save_dump"
    /\ disk' = PartialFile
    /\ pc' = "save_close"
    /\ UNCHANGED <<data, decay_rate, apiVars, rewardVars, poolVars, config, ranges,
                   scanVars, testVars, saves, exit_code,
                   genVars>>

\* save(): the last piece is written and the file closed, or a write raises
SaveClose(ok) ==
    /\ pc = "save_close"
    /\ disk' = IF ok THEN FullFile(data) ELSE disk
    /\ pc' = "select"
    /\ UNCHANGED <<data, decay_rate, apiVars, rewardVars, poolVars, config, ranges,
                   scanVars, testVars, saves, exit_code,
                   genVars>>

\* smart_speed_test(): sort final, choose high_quality, write the results
Select ==
    /\ pc = "select"
    /\ final' = SortBySpeed(final)
    /\ high_quality' = HighQuality(final', config.min_speed_target)
    /\ pc' = "done"
    /\ exit_code' = 0
    /\ UNCHANGED <<modelVars, apiVars, rewardVars, poolVars, config, ranges, scanVars,
                   cands, idx, saves,
                   genVars>>

\* KeyboardInterrupt outside save()'s try block: main() exits with status 0
Interrupt ==
    /\ pc \in {"main", "run", "scan", "speed_test", "stage2", "select"}
    /\ pc' = "interrupted"
    /\ exit_code' = 0
    /\ UNCHANGED <<modelVars, apiVars, rewardVars, poolVars, config, ranges, scanVars,
                   testVars, saves,
                   genVars>>

\* KeyboardInterrupt inside save()'s try block: the bare except swallows it,
\* the file stays as far as it was written and the run goes on
InterruptSave ==
    /\ pc \in {"save_open", "save_dump", "save_close"}
    /\ pc' = "select"
    /\ UNCHANGED <<modelVars, apiVars, rewardVars, poolVars, config, ranges, scanVars,
                   testVars, saves, exit_code,
                   genVars>>

\* the process is killed
Crash ==
    /\ pc \in {"main", "run", "scan", "speed_test", "stage2", "save_open",
               "save_dump", "save_close", "select"}
    /\ pc' = "killed"
    /\ exit_code' = 137
    /\ UNCHANGED <<modelVars, apiVars, rewardVars, poolVars, config, ranges, scanVars,
                   testVars, saves,
                   genVars>>

NextRun ==
    \/ Launch
    \/ RunStart
    \/ \E i \in 1..MaxTargets, loss \in BOOLEAN, latency \in Latencies :
            ProbeDone(i, loss, latency)
    \/ RunEnd
    \/ SpeedTestStart
    \/ \E s \in RunSpeeds : HttpProbe(s)
    \/ SaveDecay
    \/ \E ok \in BOOLEAN : SaveOpen(ok)
    \/ SaveDump
    \/ \E ok \in BOOLEAN : SaveClose(ok)
    \/ Select
    \/ Interrupt
    \/ InterruptSave
    \/ Crash

SpecRun == InitRun /\ [][NextRun]_vars

-----------------------------------------------------------------------------
(* smart_speed_test() alone: a run whose Stage 1 left n survivors, all of   *)
(* them Stage 2 candidates, from the return of run() on                     *)

\* the survivors of Stage 1, in the order run() left them
Survivor(i) == IpResult(i, V4(256 * i + 1), R(50, 1), FALSE)
Survivors(n) == [i \in 1..n |-> Survivor(i)]

\* the model after run() recorded the outcomes of s, on a first launch
RECURSIVE Stage1Data(_)
Stage1Data(s) ==
    IF s = <<>> THEN InitData(NoFile)
    ELSE LET r == s[Len(s)]
         IN  UpdateData(Stage1Data(SubSeq(s, 1, Len(s) - 1)),
                        r.ip, r.latency, Zero, r.loss, TRUE)

\* DEFAULT_CONFIG["speed_test_range"]
DefaultRange == 20

\* the throughputs _http returns: at the 0.1 cut, below and at the default target
SelectSpeeds == {R(1, 10), R(3, 1), R(5, 1)}
\* config.json's min_speed_target: the default, one below the 0.1 cut, one above every speed
SpeedTargets == {R(5, 1), R(1, 20), R(10, 1)}

InitSelect ==
    /\ pc = "speed_test"
    /\ decay_rate = DefaultDecay
    /\ disk = NoFile
    /\ config \in [speed_test_range : {DefaultRange}, min_speed_target : SpeedTargets]
    /\ ranges = "some"
    /\ results \in {Survivors(n) : n \in 0..MaxCands}
    /\ valid = results
    /\ targets = [i \in 1..Len(results) |-> results[i].ip]
    /\ data = Stage1Data(results)
    /\ futs = {}
    /\ cands = <<>>
    /\ idx = 0
    /\ final = <<>>
    /\ high_quality = <<>>
    /\ saves = 0
    /\ exit_code = -1
    /\ ApiIdle
    /\ RewardIdle
    /\ PoolIdle
    /\ GenIdle

NextSelect ==
    \/ SpeedTestStart
    \/ \E s \in SelectSpeeds : HttpProbe(s)
    \/ SaveDecay
    \/ SaveOpen(TRUE)
    \/ SaveDump
    \/ SaveClose(TRUE)
    \/ Select

SpecSelect == InitSelect /\ [][NextSelect]_vars

-----------------------------------------------------------------------------
(* SmartGenerator.generate                                                  *)

RECURSIVE Pow2(_)
Pow2(k) == IF k = 0 THEN 1 ELSE 2 * Pow2(k - 1)

\* an ipaddress network; bits is 32 for IPv4 and 128 for IPv6
Network(base, prefixlen, bits) == [base |-> base, prefixlen |-> prefixlen, bits |-> bits]
Net4(base, prefixlen) == Network(base, prefixlen, 32)
Net6(base, prefixlen) == Network(base, prefixlen, 128)

\* net.num_addresses
NumAddresses(net) == Pow2(net.bits - net.prefixlen)

\* whether the address lies in the network
InNetwork(addr, net) == net.base <= addr /\ addr < net.base + NumAddresses(net)

\* list(net.subnets(new_prefix=24))
Subnets24(net) ==
    [k \in 1..Pow2(24 - net.prefixlen) |-> Net4(net.base + 256 * (k - 1), 24)]

\* generate(): all_subnets, every IPv4 range wider than /24 split into /24 groups
RECURSIVE Expand(_)
Expand(cidrs) ==
    IF cidrs = <<>> THEN <<>>
    ELSE LET net == cidrs[Len(cidrs)]
         IN  Expand(SubSeq(cidrs, 1, Len(cidrs) - 1))
                \o (IF net.prefixlen < 24 THEN Subnets24(net) ELSE <<net>>)

\* the values of random.randint(lo, hi) that are explored: all of them when
\* there are at most MaxDraws, else the lowest ones and the highest
RandInts(lo, hi) ==
    IF hi - lo < MaxDraws THEN lo..hi
    ELSE (lo..(lo + MaxDraws - 2)) \cup {hi}

Rotate(s, k) == [i \in 1..Len(s) |-> s[((i + k - 1) % Len(s)) + 1]]
Reverse(s) == [i \in 1..Len(s) |-> s[Len(s) + 1 - i]]

\* the outcomes of random.shuffle(s) that are explored: the rotations of s
\* and its reversal
Shuffles(s) ==
    IF s = <<>> THEN {<<>>}
    ELSE {Rotate(s, k) : k \in 0..(Len(s) - 1)} \cup {Reverse(s)}

\* scored_subnets.sort(key=lambda x: x[0], reverse=True) from lowest score up
RECURSIVE InsertByScore_Ascending(_, _, _)
InsertByScore_Ascending(d, s, sn) ==
    IF s = <<>> THEN <<sn>>
    ELSE IF get_score(d, sn.base) < get_score(d, s[Len(s)].base)
         THEN Append(InsertByScore_Ascending(d, SubSeq(s, 1, Len(s) - 1), sn), s[Len(s)])
         ELSE Append(s, sn)

\* scored_subnets.sort(key=lambda x: x[0], reverse=True): a stable insertion
\* of sn into the list s, which is in descending order of score
RECURSIVE InsertByScore(_, _, _)
InsertByScore(d, s, sn) ==
    IF s = <<>> THEN <<sn>>
    ELSE IF get_score(d, s[Len(s)].base) < get_score(d, sn.base)
         THEN Append(InsertByScore(d, SubSeq(s, 1, Len(s) - 1), sn), s[Len(s)])
         ELSE Append(s, sn)

\* the subnets of scored_subnets, sorted
RECURSIVE SortByScore(_, _)
SortByScore(d, s) ==
    IF s = <<>> THEN <<>>
    ELSE InsertByScore(d, SortByScore(d, SubSeq(s, 1, Len(s) - 1)), s[Len(s)])

\* generate(): count for the subnet at rank of total; revive is the 1% draw
Quota(rank, total, revive) ==
    IF rank * 100 < total * 5 THEN 5
    ELSE IF rank * 100 < total * 20 THEN 3
    ELSE IF rank * 100 < total * 50 THEN 1
    ELSE IF revive THEN 1
    ELSE 0

\* generate(): real_count
RealCount(count, sn) ==
    IF NumAddresses(sn) > 2
    THEN (IF count < NumAddresses(sn) - 2 THEN count ELSE NumAddresses(sn) - 2)
    ELSE 1

\* the cold loop's exit when the subnets are too few for max_total_count
TooFewSubnets ==
    /\ Len(all_subnets) * 254 < max_total_count
    /\ Len(targets) >= Len(all_subnets) * 250

\* a model file of a fourth launch: the groups of seen with a history, and
\* ColdStartGroups more groups outside every candidate range
FillerNets == {256 * (1000 + i) : i \in 1..ColdStartGroups}
SeenRecord(net) ==
    IF net = 256 THEN [count |-> R(50, 1), total_reward |-> R(45, 1)]
    ELSE [count |-> R(10, 1), total_reward |-> R(2, 1)]
WarmData(seen) ==
    [total_runs |-> R(50 * Cardinality(seen \cap {256})
                        + 10 * Cardinality(seen \ {256}) + ColdStartGroups, 1),
     launch_count |-> ColdStartLaunches + 1,
     subnets |-> [k \in seen \cup FillerNets |->
                    IF k \in seen THEN SeenRecord(k)
                    ELSE [count |-> One, total_reward |-> R(1, 2)]]]

\* a model of `groups` groups outside every candidate range
BoundaryData(launches, groups) ==
    [total_runs |-> R(groups, 1),
     launch_count |-> launches,
     subnets |-> [k \in {256 * (1000 + i) : i \in 1..groups} |->
                    [count |-> One, total_reward |-> R(1, 2)]]]

\* the document from which this launch's constructor gets the model d
Stored(d) == FullFile([d EXCEPT !.launch_count = @ - 1])

\* the model files generate()'s model was constructed from: none (a first
\* launch), warm ones, and the two sides of each bound of is_cold_start
GenFiles ==
    {NoFile, Stored(WarmData({256})), Stored(WarmData({256, 512})),
     Stored(BoundaryData(ColdStartLaunches, ColdStartGroups)),
     Stored(BoundaryData(ColdStartLaunches + 1, ColdStartGroups - 1)),
     Stored(BoundaryData(ColdStartLaunches + 1, ColdStartGroups))}

\* the IPv4 range lists generate() is called with
V4Lists ==
    { <<>>,
      <<Net4(256, 30)>>,
      <<Net4(256, 24), Net4(512, 24)>>,
      <<Net4(256, 30), Net4(512, 31)>>,
      <<Net4(512, 32)>>,
      <<Net4(0, 22), Net4(1024, 23)>> }

\* the IPv6 range list of the runs with IPv6
V6List == <<Net6(65536, 112), Net6(536870912, 100)>>
\* the least max_total_count for which int(max_total_count * 0.1) is 1
V6Count == 10

\* what generate() leaves alone
genFrame ==
    <<modelVars, apiVars, rewardVars, poolVars, config, ranges, futs, valid, results,
      testVars, saves, exit_code, genArgs>>

InitGen ==
    /\ pc = "generate"
    /\ decay_rate = DefaultDecay
    /\ disk \in GenFiles
    /\ data = InitData(disk)
    /\ \/ /\ cidrs_v4 \in V4Lists
          /\ cidrs_v6 = <<>>
          /\ max_total_count \in 0..MaxCount
       \/ /\ cidrs_v4 \in {<<>>, <<Net4(256, 30)>>}
          /\ cidrs_v6 = V6List
          /\ max_total_count = V6Count
          /\ cidrs_v4 = <<>> \/ ~is_cold_start(data)
    /\ targets = <<>>
    /\ GenLocalsIdle
    /\ config = <<>>
    /\ ranges = "some"
    /\ futs = {}
    /\ valid = <<>>
    /\ results = <<>>
    /\ cands = <<>>
    /\ idx = 0
    /\ final = <<>>
    /\ high_quality = <<>>
    /\ saves = 0
    /\ exit_code = -1
    /\ ApiIdle
    /\ RewardIdle
    /\ PoolIdle

\* generate(): expand the ranges; cold: shuffle them; warm: score and sort them
GenStart ==
    /\ pc = "generate"
    /\ IF is_cold_start(data)
       THEN /\ all_subnets' \in Shuffles(Expand(cidrs_v4))
            /\ pc' = "cold_while"
       ELSE /\ all_subnets' = SortByScore(data, Expand(cidrs_v4))
            /\ pc' = "warm"
    /\ pos' = 1
    /\ UNCHANGED <<genFrame, targets, slots, picked, generated_count, quotas>>

\* the cold path's "while len(targets) < max_total_count"
ColdWhile ==
    /\ pc = "cold_while"
    /\ IF Len(targets) < max_total_count
       THEN pc' = "cold_for" /\ pos' = 1
       ELSE pc' = "v6" /\ UNCHANGED pos
    /\ UNCHANGED <<genFrame, targets, all_subnets, slots, picked,
                   generated_count, quotas>>

\* the cold path's "for sn in all_subnets": one subnet, host being the draw
ColdFor(host) ==
    /\ pc = "cold_for"
    /\ IF pos > Len(all_subnets) \/ Len(targets) >= max_total_count
       THEN host = 1 /\ pc' = "cold_check" /\ UNCHANGED <<targets, pos>>
       ELSE LET sn == all_subnets[pos]
            IN  /\ IF NumAddresses(sn) > 2
                   THEN /\ host \in RandInts(1, NumAddresses(sn) - 2)
                        /\ targets' = Append(targets, V4(sn.base + host))
                   ELSE /\ host = 1
                        /\ UNCHANGED targets
                /\ pos' = pos + 1
                /\ UNCHANGED pc
    /\ UNCHANGED <<genFrame, all_subnets, slots, picked, generated_count, quotas>>

\* the cold path's two exits after a sweep
ColdCheck ==
    /\ pc = "cold_check"
    /\ pc' = IF Len(targets) >= max_total_count \/ TooFewSubnets
             THEN "v6" ELSE "cold_while"
    /\ UNCHANGED <<genFrame, targets, all_subnets, pos, slots, picked,
                   generated_count, quotas>>

\* the warm path's "for rank, (score, sn) in enumerate(scored_subnets)" up to
\* real_count
WarmRank(revive) ==
    /\ pc = "warm"
    /\ IF pos > Len(all_subnets) \/ generated_count >= max_total_count
       THEN /\ pc' = "v6"
            /\ UNCHANGED <<pos, slots, quotas>>
       ELSE LET count == Quota(pos - 1, Len(all_subnets), revive)
            IN  /\ quotas' = Append(quotas, count)
                /\ IF count > 0
                   THEN /\ slots' = RealCount(count, all_subnets[pos])
                        /\ pc' = "warm_pick"
                        /\ UNCHANGED pos
                   ELSE /\ pos' = pos + 1
                        /\ UNCHANGED <<pc, slots>>
    /\ picked' = {}
    /\ UNCHANGED <<genFrame, targets, all_subnets, generated_count>>

\* the warm path's "for _ in range(real_count)": one slot.  host > 0 is the
\* first draw of the five that is not in picked, host = 0 means all five were
\* in picked
WarmPick(host) ==
    /\ pc = "warm_pick"
    /\ IF slots = 0
       THEN /\ host = 0
            /\ pos' = pos + 1
            /\ pc' = "warm"
            /\ UNCHANGED <<targets, slots, picked, generated_count>>
       ELSE LET sn == all_subnets[pos]
            IN  IF NumAddresses(sn) - 2 < 1
                THEN \* random.randint(1, num_addresses - 2) raises ValueError
                     /\ host = 0
                     /\ pc' = "raised"
                     /\ UNCHANGED <<targets, pos, slots, picked, generated_count>>
                ELSE /\ \/ /\ host \in RandInts(1, NumAddresses(sn) - 2)
                           /\ V4(sn.base + host) \notin picked
                           /\ picked' = picked \cup {V4(sn.base + host)}
                           /\ targets' = Append(targets, V4(sn.base + host))
                           /\ generated_count' = generated_count + 1
                        \/ /\ host = 0
                           /\ picked # {}
                           /\ UNCHANGED <<targets, picked, generated_count>>
                     /\ slots' = slots - 1
                     /\ UNCHANGED <<pc, pos>>
    /\ UNCHANGED <<genFrame, all_subnets, quotas>>

\* "if cidrs_v6": limit = int(max_total_count * 0.1)
V6Start ==
    /\ pc = "v6"
    /\ slots' = IF cidrs_v6 # <<>> THEN max_total_count \div 10 ELSE 0
    /\ pc' = "v6_pick"
    /\ UNCHANGED <<genFrame, targets, all_subnets, pos, picked,
                   generated_count, quotas>>

\* "for _ in range(limit)": one IPv6 address, or the final shuffle and return
V6Pick(c, offset) ==
    /\ pc = "v6_pick"
    /\ slots > 0
    /\ c \in 1..Len(cidrs_v6)
    /\ offset \in RandInts(1, 65536)
    /\ targets' = Append(targets, V6(cidrs_v6[c].base + offset))
    /\ slots' = slots - 1
    /\ UNCHANGED <<genFrame, pc, all_subnets, pos, picked, generated_count, quotas>>

\* random.shuffle(targets); return targets
GenReturn ==
    /\ pc = "v6_pick"
    /\ slots = 0
    /\ targets' \in Shuffles(targets)
    /\ pc' = "returned"
    /\ UNCHANGED <<genFrame, all_subnets, pos, slots, picked, generated_count, quotas>>

NextGen ==
    \/ GenStart
    \/ ColdWhile
    \/ \E host \in 1..254 : ColdFor(host)
    \/ ColdCheck
    \/ \E revive \in BOOLEAN : WarmRank(revive)
    \/ \E host \in 0..254 : WarmPick(host)
    \/ V6Start
    \/ \E c \in 1..Len(V6List), offset \in RandInts(1, 65536) : V6Pick(c, offset)
    \/ GenReturn

SpecGen == InitGen /\ [][NextGen]_vars

-----------------------------------------------------------------------------
(* Properties of UCBManager, checked under Spec *)

\* the groups looked at: the two that update() can create and one never seen
Nets == {256, 512, 768}

\* the last call was an update() of an IPv4 address
Updated == last.op = "update" /\ ~Ignored(last.ip)
UpdatedNet == NetOf(last.ip.addr)
\* the record of the updated group before and after the call
RecBefore == RecordOf(last.prev, UpdatedNet)
RecAfter == data.subnets[UpdatedNet]
CountGain == Sub(RecAfter.count, RecBefore.count)
RewardGain == Sub(RecAfter.total_reward, RecBefore.total_reward)
RunsGain == Sub(data.total_runs, last.prev.total_runs)
\* the sample was added with this weight
AddedWith(w) ==
    /\ CountGain = w
    /\ RewardGain = Mul(w, last.reward)
    /\ RunsGain = w

\* C1: get_score is the sentinel 9999 for every group that is absent or has
\* count < 0.1, and is strictly below the sentinel for every group with
\* count >= 0.1.
C1_SentinelDominates ==
    \A net \in Nets :
        IF ~HasNet(data, net) \/ Lt(data.subnets[net].count, R(1, 10))
        THEN get_score(data, net) = Sentinel
        ELSE get_score(data, net) < Sentinel

\* C1 witness: a stored group with count < 0.1 beside a group with
\* count >= 0.1 whose exploration bonus is positive (total_runs > 1)
C1_Witness ==
    /\ \E net \in Nets : HasNet(data, net) /\ Lt(data.subnets[net].count, R(1, 10))
    /\ \E net \in Nets : HasNet(data, net) /\ Le(R(1, 10), data.subnets[net].count)
    /\ Lt(One, data.total_runs)

\* C2 as stated: whenever the group's average reward before the call is
\* > 0.6, at any positive count, and the reward is < 0.1, the sample is added
\* with weight 0.2; in every other case with weight 1.0.
C2_DampenedAtAnyCount ==
    Updated =>
        IF /\ Lt(Zero, RecBefore.count)
           /\ Lt(R(3, 5), AvgReward(RecBefore))
           /\ Lt(last.reward, R(1, 10))
        THEN AddedWith(R(1, 5))
        ELSE AddedWith(One)

\* C2 amended: the sample is added with weight 0.2 exactly when the group's
\* count before the call is > 2.0, its average reward is > 0.6 and the reward
\* is < 0.1; in every other case with weight 1.0.
C2_DampenedAboveTwo ==
    Updated =>
        IF /\ Lt(R(2, 1), RecBefore.count)
           /\ Lt(R(3, 5), AvgReward(RecBefore))
           /\ Lt(last.reward, R(1, 10))
        THEN AddedWith(R(1, 5))
        ELSE AddedWith(One)

\* C2 witness: a sample was dampened
C2_Witness ==
    /\ Updated
    /\ Lt(R(2, 1), RecBefore.count)
    /\ Lt(R(3, 5), AvgReward(RecBefore))
    /\ Lt(last.reward, R(1, 10))
    /\ CountGain = R(1, 5)

\* C4: one save multiplies total_runs and every group's count and
\* total_reward by decay_rate, removes exactly the groups whose decayed count
\* is < 0.5 and whose decayed average reward is < 0.2, and keeps every other
\* group with its decayed values.
C4_SaveDecaysAndPrunes ==
    last.op = "save" =>
        /\ data.total_runs = Mul(last.prev.total_runs, decay_rate)
        /\ DOMAIN data.subnets \subseteq DOMAIN last.prev.subnets
        /\ \A net \in DOMAIN last.prev.subnets :
            LET count == Mul(last.prev.subnets[net].count, decay_rate)
                total_reward == Mul(last.prev.subnets[net].total_reward, decay_rate)
            IN  IF Lt(count, R(1, 2)) /\ Lt(Div(total_reward, count), R(1, 5))
                THEN ~HasNet(data, net)
                ELSE /\ HasNet(data, net)
                     /\ data.subnets[net].count = count
                     /\ data.subnets[net].total_reward = total_reward
        /\ \A net \in DOMAIN data.subnets :
            ~(/\ Lt(data.subnets[net].count, R(1, 2))
              /\ Lt(AvgReward(data.subnets[net]), R(1, 5)))

\* C4 witness: a save removed one group and kept another whose count is < 0.5
C4_Witness ==
    /\ last.op = "save"
    /\ \E net \in DOMAIN last.prev.subnets : ~HasNet(data, net)
    /\ \E net \in DOMAIN data.subnets : Lt(data.subnets[net].count, R(1, 2))

-----------------------------------------------------------------------------
(* Properties of the reward, checked under SpecReward *)

Clamp(x, lo, hi) == RMax(lo, RMin(x, hi))

\* the reward formula of the specification
ReferenceReward(latency, speed, is_loss, tcp_only) ==
    LET latencyScore ==
            Mul(R(3, 10),
                Sub(One, Clamp(Div(Sub(latency, R(50, 1)), R(150, 1)), Zero, One)))
    IN  IF is_loss THEN Zero
        ELSE IF tcp_only THEN latencyScore
        ELSE Add(latencyScore, Mul(R(7, 10), Clamp(Div(speed, R(10, 1)), Zero, One)))

RewardComputed == reward_ret # <<>>

C3_RewardIsReferenceNonNegative ==
    (RewardComputed /\ Le(Zero, reward_args.speed)) =>
        /\ reward_ret[1] = ReferenceReward(reward_args.latency, reward_args.speed,
                                               reward_args.is_loss, reward_args.tcp_only)
        /\ reward_args.is_loss => reward_ret[1] = Zero
        /\ (~reward_args.is_loss /\ reward_args.tcp_only
                /\ reward_args.latency = R(50, 1)) => reward_ret[1] = R(3, 10)
        /\ (~reward_args.is_loss /\ reward_args.tcp_only
                /\ Le(R(200, 1), reward_args.latency)) => reward_ret[1] = Zero
        /\ (~reward_args.is_loss /\ ~reward_args.tcp_only
                /\ reward_args.latency = R(50, 1)
                /\ reward_args.speed = R(10, 1)) => reward_ret[1] = One

-----------------------------------------------------------------------------
(* Properties of a run, checked under SpecRun *)

\* the run ended by itself: main() returned
Completed == pc = "done"
\* the run is over, however it ended
Ended == pc \in {"done", "exited", "interrupted", "killed"}

\* C5: every run that completes and had targets to probe has called
\* UCBManager.save exactly once, also when Stage 1 left no survivor.
C5_SavedOnceWhenProbed ==
    (Completed /\ targets # <<>>) => saves = 1

\* C6: however the run ends (completed, interrupted or killed at any point),
\* MODEL_FILE holds the complete pre-run model or the complete decayed
\* post-Stage-2 model, never an empty or partly written document.
C6_ModelFileComplete ==
    Ended =>
        \/ disk \in {NoFile, FullFile(PriorData)}
        \/ disk = FullFile(data) /\ saves = 1

-----------------------------------------------------------------------------
(* Properties of the selection, checked under SpecSelect *)

Indices(s) == 1..Len(s)
\* the candidates that went to final: throughput > 0.1
KeptCands == {i \in Indices(cands) : Lt(R(1, 10), cands[i].speed)}
Qualifies(r) == Le(config.min_speed_target, r.speed)
\* whether candidate i is among the results written out
Chosen(i) == \E j \in Indices(high_quality) : high_quality[j] = cands[i]
Least(a, b) == IF a < b THEN a ELSE b
\* smart_speed_test() went through the selection
Selected == pc = "done" /\ saves = 1

\* C10 as stated: the final result set holds every Stage 2 candidate whose
\* throughput is >= min_speed_target, and when fewer than 5 qualify it has
\* min(5, number of Stage 2 candidates) entries.
C10_BackfillFromAllCandidates ==
    Selected =>
        LET qualifying == {i \in Indices(cands) : Qualifies(cands[i])}
        IN  /\ \A i \in qualifying : Chosen(i)
            /\ Cardinality(qualifying) < Backfill
                => Len(high_quality) = Least(Backfill, Len(cands))

\* C10 amended: only candidates with throughput > 0.1 are eligible.  The final
\* result set holds every eligible candidate whose throughput is >=
\* min_speed_target; when fewer than 5 of them qualify it is extended with the
\* other eligible candidates in descending throughput order, up to
\* min(5, number of eligible candidates) entries in all.
C10_BackfillFromEligible ==
    Selected =>
        LET qualifying == {i \in KeptCands : Qualifies(cands[i])}
        IN  /\ \A i \in Indices(cands) : Chosen(i) => i \in KeptCands
            /\ \A j, k \in Indices(high_quality) :
                    j # k => high_quality[j] # high_quality[k]
            /\ \A i \in qualifying : Chosen(i)
            /\ Cardinality(qualifying) >= Backfill
                => Len(high_quality) = Cardinality(qualifying)
            /\ Cardinality(qualifying) < Backfill
                => /\ Len(high_quality) = Least(Backfill, Cardinality(KeptCands))
                   /\ \A i, k \in KeptCands \ qualifying :
                        (Chosen(i) /\ ~Chosen(k))
                            => Le(cands[k].speed, cands[i].speed)

\* C10 witness: fewer than 5 candidates qualified, a candidate below the
\* target was added to the results and one with throughput <= 0.1 was not
C10_Witness ==
    /\ Selected
    /\ Cardinality({i \in KeptCands : Qualifies(cands[i])}) < Backfill
    /\ \E i \in KeptCands : Chosen(i) /\ ~Qualifies(cands[i])
    /\ \E i \in Indices(cands) : i \notin KeptCands

-----------------------------------------------------------------------------
(* Properties of generate(), checked under SpecGen *)

\* generate() takes the cold path
ColdRun == is_cold_start(data)
Returned == pc = "returned"

\* the number of addresses generate() can draw from the subnets of s
RECURSIVE Pickable(_)
Pickable(s) ==
    IF s = <<>> THEN 0
    ELSE Pickable(SubSeq(s, 1, Len(s) - 1))
            + (IF NumAddresses(s[Len(s)]) > 2 THEN NumAddresses(s[Len(s)]) - 2 ELSE 0)

InSomeRange(ip, cidrs) == \E c \in Indices(cidrs) : InNetwork(ip.addr, cidrs[c])
V4Targets == {i \in Indices(targets) : targets[i].kind = "v4"}
\* the targets drawn from the subnet
TargetsOf(sn) == {i \in V4Targets : InNetwork(targets[i].addr, sn)}

\* the group is not in the model / is in it with count >= 0.1
Unseen(sn) == ~HasNet(data, sn.base)
Explored(sn) == HasNet(data, sn.base) /\ Le(R(1, 10), data.subnets[sn.base].count)

\* C7: cold-start generation with no IPv6 ranges, over IPv4 ranges with at
\* least max_total_count addresses to draw, returns exactly max_total_count
\* addresses, pairwise distinct, each inside a supplied range.
C7_ColdExactUniqueInRange ==
    (Returned /\ ColdRun /\ cidrs_v6 = <<>>
        /\ Pickable(Expand(cidrs_v4)) >= max_total_count)
    => /\ Len(targets) = max_total_count
       /\ \A i, j \in Indices(targets) : i # j => targets[i] # targets[j]
       /\ \A i \in Indices(targets) : InSomeRange(targets[i], cidrs_v4)

\* C8: on the warm path each rank gets the quota of its tier (5 below 5% of
\* the groups, 3 below 20%, 1 below 50%, else 0 or the revival's 1), and the
\* number of IPv4 addresses emitted never exceeds max_total_count.
C8_WarmQuotasAndTotal ==
    ~ColdRun =>
        /\ \A r \in Indices(quotas) :
            LET rank == r - 1
                total == Len(all_subnets)
            IN  IF 20 * rank < total THEN quotas[r] = 5
                ELSE IF 5 * rank < total THEN quotas[r] = 3
                ELSE IF 2 * rank < total THEN quotas[r] = 1
                ELSE quotas[r] \in {0, 1}
        /\ Cardinality(V4Targets) <= max_total_count

\* the two candidate groups of C9: B unseen, with addresses to draw, and A explored
TwoGroups(a, b) ==
    /\ Len(all_subnets) = 2
    /\ {a, b} = {1, 2}
    /\ Explored(all_subnets[a])
    /\ Unseen(all_subnets[b])
    /\ NumAddresses(all_subnets[b]) > 2

\* C9: on the warm path no explored group is ranked ahead of an unseen one,
\* and with two candidate groups, A explored and B unseen, a list of at least
\* one address (3 in the claim) holds an address of B.
C9_UnseenRankedFirst ==
    (~ColdRun /\ pc # "generate") =>
        /\ \A i, j \in Indices(all_subnets) :
            (Explored(all_subnets[i]) /\ Unseen(all_subnets[j])) => j < i
        /\ \A a, b \in {1, 2} :
            (Returned /\ TwoGroups(a, b) /\ max_total_count >= 1)
                => TargetsOf(all_subnets[b]) # {}

\* C9 witness: group A with average reward 0.9 at count 50, B unseen, 3
\* addresses asked for, and the returned list holds one of B
C9_Witness ==
    /\ Returned
    /\ ~ColdRun
    /\ max_total_count = 3
    /\ \E a, b \in {1, 2} :
        /\ TwoGroups(a, b)
        /\ data.subnets[all_subnets[a].base] = [count |-> R(50, 1), total_reward |-> R(45, 1)]
        /\ TargetsOf(all_subnets[b]) # {}

-----------------------------------------------------------------------------
(* More properties of a run, checked under SpecRun *)

\* main() returned or called sys.exit itself
Finished == pc \in {"done", "exited"}

\* C11: whenever the list of targets is empty after generation (no range was
\* loaded, or generate() returned no address), the run ends with a nonzero
\* exit status, no probe was started and the model file is as it was.
C11_EmptyTargetsAbort ==
    (Finished /\ targets = <<>>) =>
        /\ exit_code > 0
        /\ futs = {} /\ valid = <<>> /\ cands = <<>>
        /\ saves = 0
        /\ disk \in {NoFile, FullFile(PriorData)}

-----------------------------------------------------------------------------
(* UCBManager over every content of MODEL_FILE: the constructor, then any   *)
(* sequence of update, save, get_score and is_cold_start calls, each of     *)
(* which may raise                                                          *)

\* open() raises on the file (a directory, no permission)
UnreadableFile == [state |-> "unreadable"]

\* documents json.load accepts that are not a model: a list, and objects
\* without "subnets" or without "total_runs"
NotDict == [json_list |-> <<>>]
NoSubnetsDoc(launches) == [total_runs |-> Zero, launch_count |-> launches]
NoRunsDoc(launches) == [launch_count |-> launches, subnets |-> <<>>]

IsDict(d) == "json_list" \notin DOMAIN d
HasKey(d, key) == key \in DOMAIN d

\* the contents of MODEL_FILE the constructor is run on
ModelFiles ==
    {NoFile, UnreadableFile, EmptyFile, PartialFile, FullFile(PriorData),
     FullFile(NotDict), FullFile(NoSubnetsDoc(0)),
     FullFile(NoSubnetsDoc(ColdStartLaunches)), FullFile(NoRunsDoc(0))}

\* __init__ raises: self.data.get on a document that is no dict
InitRaises(file) == ~IsDict(LoadData(file))

\* update() raises KeyError: self.data["subnets"] at line 116, or
\* self.data["total_runs"] at line 128
UpdateRaises(d, ip) ==
    ~Ignored(ip) /\ (~HasKey(d, "subnets") \/ ~HasKey(d, "total_runs"))

\* the data a raising update() leaves: without "subnets" nothing was written,
\* without "total_runs" the record was
UpdateRaisedData(d, ip, latency, speed, is_loss, tcp_only) ==
    IF ~HasKey(d, "subnets") THEN d
    ELSE LET whole == [total_runs |-> Zero, launch_count |-> d.launch_count,
                       subnets |-> d.subnets]
         IN  [d EXCEPT !.subnets =
                UpdateData(whole, ip, latency, speed, is_loss, tcp_only).subnets]

\* save() raises KeyError: self.data["total_runs"] at line 70, or
\* self.data["subnets"] at line 73, both outside the try block
SaveRaises(d) == ~HasKey(d, "total_runs") \/ ~HasKey(d, "subnets")

\* the data a raising save() leaves: total_runs is decayed before "subnets" is read
SaveRaisedData(d, rate) ==
    IF HasKey(d, "total_runs") THEN [d EXCEPT !.total_runs = Mul(@, rate)] ELSE d

\* get_score() raises KeyError: self.data["subnets"], or self.data["total_runs"]
\* once the record passed the count test
GetScoreRaises(d, subnet_ip) ==
    \/ ~HasKey(d, "subnets")
    \/ /\ ~HasKey(d, "total_runs")
       /\ HasNet(d, subnet_ip)
       /\ ~Lt(d.subnets[subnet_ip].count, R(1, 10))

\* is_cold_start() raises KeyError: self.data["subnets"], read only when
\* launch > 3
IsColdStartRaises(d) ==
    d.launch_count > ColdStartLaunches /\ ~HasKey(d, "subnets")

InitLoad ==
    /\ pc = "new"
    /\ decay_rate = DefaultDecay
    /\ disk \in ModelFiles
    /\ data = EmptyData
    /\ ApiIdle
    /\ RewardIdle
    /\ PoolIdle
    /\ config = <<>>
    /\ ranges = "none"
    /\ targets = <<>>
    /\ futs = {}
    /\ valid = <<>>
    /\ results = <<>>
    /\ cands = <<>>
    /\ idx = 0
    /\ final = <<>>
    /\ high_quality = <<>>
    /\ saves = 0
    /\ exit_code = -1
    /\ GenIdle

\* what the UCBManager calls leave alone
loadFrame ==
    <<decay_rate, rewardVars, poolVars, config, ranges, scanVars, testVars, saves,
      exit_code, genVars>>

\* UCBManager(): the default data, load(), the launch increment
Construct ==
    /\ pc = "new"
    /\ IF InitRaises(disk)
       THEN data' = LoadData(disk) /\ pc' = "raised"
       ELSE data' = InitData(disk) /\ pc' = "ready"
    /\ last' = [op |-> "construct", prev |-> data]
    /\ UNCHANGED <<disk, ops, loadFrame>>

CallUpdate(ip, latency, speed, is_loss, tcp_only) ==
    /\ pc = "ready"
    /\ ops < MaxOps
    /\ IF UpdateRaises(data, ip)
       THEN /\ data' = UpdateRaisedData(data, ip, latency, speed, is_loss, tcp_only)
            /\ pc' = "raised"
       ELSE /\ data' = UpdateData(data, ip, latency, speed, is_loss, tcp_only)
            /\ UNCHANGED pc
    /\ last' = [op |-> "update", ip |-> ip, prev |-> data]
    /\ ops' = ops + 1
    /\ UNCHANGED <<disk, loadFrame>>

CallSave(outcome) ==
    /\ pc = "ready"
    /\ ops < MaxOps
    /\ IF SaveRaises(data)
       THEN /\ data' = SaveRaisedData(data, decay_rate)
            /\ pc' = "raised"
            /\ UNCHANGED disk
       ELSE /\ data' = SaveData(data, decay_rate)
            /\ disk' = WriteModel(disk, data', outcome)
            /\ UNCHANGED pc
    /\ last' = [op |-> "save", outcome |-> outcome, prev |-> data]
    /\ ops' = ops + 1
    /\ UNCHANGED loadFrame

CallGetScore(subnet_ip) ==
    /\ pc = "ready"
    /\ ops < MaxOps
    /\ IF GetScoreRaises(data, subnet_ip)
       THEN /\ pc' = "raised"
            /\ last' = [op |-> "get_score", prev |-> data]
       ELSE /\ UNCHANGED pc
            /\ last' = [op |-> "get_score", ret |-> get_score(data, subnet_ip),
                        prev |-> data]
    /\ ops' = ops + 1
    /\ UNCHANGED <<data, disk, loadFrame>>

CallIsColdStart ==
    /\ pc = "ready"
    /\ ops < MaxOps
    /\ IF IsColdStartRaises(data)
       THEN /\ pc' = "raised"
            /\ last' = [op |-> "is_cold_start", prev |-> data]
       ELSE /\ UNCHANGED pc
            /\ last' = [op |-> "is_cold_start", ret |-> is_cold_start(data),
                        prev |-> data]
    /\ ops' = ops + 1
    /\ UNCHANGED <<data, disk, loadFrame>>

NextLoad ==
    \/ Construct
    \/ \E ip \in IPs, is_loss \in BOOLEAN :
            CallUpdate(ip, R(50, 1), Zero, is_loss, TRUE)
    \/ \E outcome \in WriteOutcomes : CallSave(outcome)
    \/ \E subnet_ip \in {256, 512} : CallGetScore(subnet_ip)
    \/ CallIsColdStart

SpecLoad == InitLoad /\ [][NextLoad]_vars

\* the file is absent, cannot be opened or is not JSON
Unloadable(file) == file.state # "full"
\* the file is a model document
WellShaped(file) ==
    /\ file.state = "full"
    /\ {"total_runs", "launch_count", "subnets"} \subseteq DOMAIN file.content

\* C12: for every content of MODEL_FILE no UCBManager call raises, and unless
\* the file held a model document the constructed model is the empty default
\* with launch_count 1.
C12_PersistenceNeverFatal ==
    /\ pc # "raised"
    /\ (last.op = "construct" /\ ~WellShaped(disk)) => data = InitData(NoFile)

\* C12, for a file that is absent, unreadable or not parsable, with writes
\* that fail: nothing raises and the constructed model is the empty default
C12_UnloadableFileNeverFatal ==
    (last.op # "init" /\ Unloadable(disk)) =>
        /\ pc # "raised"
        /\ last.op = "construct" => data = InitData(NoFile)

-----------------------------------------------------------------------------
(* Scanner.run with its threads: the workers of the ThreadPoolExecutor run  *)
(* _tcp, the main thread takes the completed futures one at a time and      *)
(* calls update(), whose writes are separate steps                          *)

\* the i-th address of the list generate() returned: the first two share a
\* /24 group, the third is IPv6
ScanTarget(i) ==
    IF i = 3 THEN V6(3)
    ELSE IF i <= 2 THEN V4(256 + i)
    ELSE V4(256 * (i - 2) + 1)
ScanTargets(n) == [i \in 1..n |-> ScanTarget(i)]

\* a model file in which the group of the first two targets is established:
\* count 3, average reward 0.9
EstablishedData ==
    [total_runs |-> R(3, 1), launch_count |-> 1,
     subnets |-> (256 :> [count |-> R(3, 1), total_reward |-> R(27, 10)])]

\* config.json's threads
ThreadCounts == {1, 2}

Queued == [state |-> "queued"]
Running == [state |-> "running"]
Finished_(r) == [state |-> "finished", result |-> r]

\* the futures whose _tcp call is being run by a worker
RunningFuts == {i \in DOMAIN pool : pool[i].state = "running"}

\* update(): "if net not in self.data['subnets']: ... = {count: 0, total_reward: 0.0}"
EnsureRecord(d, net) ==
    IF HasNet(d, net) THEN d
    ELSE [d EXCEPT !.subnets = [k \in DOMAIN d.subnets \cup {net} |->
                                    IF k = net THEN NewRecord ELSE d.subnets[k]]]

\* record["count"] += impact_weight with the old count overwritten
WriteCount_Overwrite(d, net, impact_weight) ==
    [d EXCEPT !.subnets[net].count = impact_weight]

\* update(): record["count"] += impact_weight
WriteCount(d, net, impact_weight) ==
    [d EXCEPT !.subnets[net].count = Add(@, impact_weight)]

\* update(): record["total_reward"] += (current_reward * impact_weight)
WriteReward(d, net, current_reward, impact_weight) ==
    [d EXCEPT !.subnets[net].total_reward = Add(@, Mul(current_reward, impact_weight))]

\* update(): self.data["total_runs"] += impact_weight
WriteRuns(d, impact_weight) ==
    [d EXCEPT !.total_runs = Add(@, impact_weight)]

InitScan ==
    /\ pc = "run"
    /\ decay_rate = DefaultDecay
    /\ disk \in {NoFile, FullFile(EstablishedData)}
    /\ data = InitData(disk)
    /\ config \in [threads : ThreadCounts, speed_test_range : SpeedTestRanges,
                   min_speed_target : {R(5, 1)}]
    /\ ranges = "some"
    /\ targets \in {ScanTargets(n) : n \in 0..MaxTargets}
    /\ futs = {}
    /\ valid = <<>>
    /\ results = <<>>
    /\ cands = <<>>
    /\ idx = 0
    /\ final = <<>>
    /\ high_quality = <<>>
    /\ saves = 0
    /\ exit_code = -1
    /\ ApiIdle
    /\ RewardIdle
    /\ PoolIdle
    /\ GenIdle

\* what Stage 1 leaves alone
scanFrame ==
    <<decay_rate, disk, apiVars, rewardVars, config, ranges, targets, results,
      testVars, saves, exit_code, genVars>>

\* run(): return at once without targets, else ex.submit every probe
Submit ==
    /\ pc = "run"
    /\ IF targets = <<>>
       THEN pc' = "speed_test" /\ UNCHANGED <<futs, pool>>
       ELSE /\ pc' = "scan"
            /\ futs' = 1..Len(targets)
            /\ pool' = [i \in 1..Len(targets) |-> Queued]
    /\ UNCHANGED <<data, valid, upd, applied, scanFrame>>

\* a free worker of the pool takes the queued probe i
WorkerStart(i) ==
    /\ pc = "scan"
    /\ i \in DOMAIN pool
    /\ pool[i] = Queued
    /\ Cardinality(RunningFuts) < config.threads
    /\ pool' = [pool EXCEPT ![i] = Running]
    /\ UNCHANGED <<pc, data, futs, valid, upd, applied, scanFrame>>

\* the worker's _tcp(ip) returns
WorkerFinish(i, loss, latency) ==
    /\ pc = "scan"
    /\ i \in DOMAIN pool
    /\ pool[i] = Running
    /\ pool' = [pool EXCEPT ![i] =
                    Finished_(IpResult(i, targets[i], IF loss THEN Zero ELSE latency, loss))]
    /\ UNCHANGED <<pc, data, futs, valid, upd, applied, scanFrame>>

\* the main thread: as_completed yields the finished future i and update() is
\* entered: the address is parsed, the reward and the weight are computed,
\* the record is created.  For an address update() ignores, the whole
\* iteration.
Yield(i) ==
    /\ pc = "scan"
    /\ upd = <<>>
    /\ i \in futs
    /\ pool[i].state = "finished"
    /\ LET r == pool[i].result
       IN  IF Ignored(r.ip)
           THEN /\ valid' = IF r.loss THEN valid ELSE Append(valid, r)
                /\ futs' = futs \ {i}
                /\ applied' = Append(applied, r)
                /\ UNCHANGED <<data, upd>>
           ELSE LET net == NetOf(r.ip.addr)
                    current_reward == Reward(r.latency, Zero, r.loss, TRUE)
                    impact_weight == ImpactWeight(RecordOf(data, net), current_reward)
                IN  /\ data' = EnsureRecord(data, net)
                    /\ upd' = <<[r |-> r, net |-> net, current_reward |-> current_reward,
                                 impact_weight |-> impact_weight, line |-> 126]>>
                    /\ UNCHANGED <<futs, valid, applied>>
    /\ UNCHANGED <<pc, pool, scanFrame>>

\* the main thread, update() line 126
UpdateCount ==
    /\ pc = "scan"
    /\ upd # <<>>
    /\ upd[1].line = 126
    /\ data' = WriteCount(data, upd[1].net, upd[1].impact_weight)
    /\ upd' = <<[upd[1] EXCEPT !.line = 127]>>
    /\ UNCHANGED <<pc, pool, futs, valid, applied, scanFrame>>

\* the main thread, update() line 127
UpdateReward ==
    /\ pc = "scan"
    /\ upd # <<>>
    /\ upd[1].line = 127
    /\ data' = WriteReward(data, upd[1].net, upd[1].current_reward, upd[1].impact_weight)
    /\ upd' = <<[upd[1] EXCEPT !.line = 128]>>
    /\ UNCHANGED <<pc, pool, futs, valid, applied, scanFrame>>

\* the main thread, update() line 128 and its return, then
\* "if not r.loss: valid.append(r)"
UpdateRuns ==
    /\ pc = "scan"
    /\ upd # <<>>
    /\ upd[1].line = 128
    /\ data' = WriteRuns(data, upd[1].impact_weight)
    /\ valid' = IF upd[1].r.loss THEN valid ELSE Append(valid, upd[1].r)
    /\ futs' = futs \ {upd[1].r.id}
    /\ applied' = Append(applied, upd[1].r)
    /\ upd' = <<>>
    /\ UNCHANGED <<pc, pool, scanFrame>>

NextScan ==
    \/ Submit
    \/ \E i \in 1..MaxTargets : WorkerStart(i)
    \/ \E i \in 1..MaxTargets, loss \in BOOLEAN, latency \in Latencies :
            WorkerFinish(i, loss, latency)
    \/ \E i \in 1..MaxTargets : Yield(i)
    \/ UpdateCount
    \/ UpdateReward
    \/ UpdateRuns
    \/ RunEnd
    \/ SpeedTestStart
    \/ \E s \in RunSpeeds : HttpProbe(s)

SpecScan == InitScan /\ [][NextScan]_vars

-----------------------------------------------------------------------------
(* Properties of Stage 1, checked under SpecScan *)

\* the model after update() was called for each result of s in turn
RECURSIVE ApplyAll(_, _)
ApplyAll(d, s) ==
    IF s = <<>> THEN d
    ELSE LET r == s[Len(s)]
         IN  UpdateData(ApplyAll(d, SubSeq(s, 1, Len(s) - 1)),
                        r.ip, r.latency, Zero, r.loss, TRUE)

\* the sum of the counts of the groups of nets
RECURSIVE SumCountsOver(_, _)
SumCountsOver(d, nets) ==
    IF nets = {} THEN Zero
    ELSE LET net == CHOOSE k \in nets : TRUE
         IN  Add(d.subnets[net].count, SumCountsOver(d, nets \ {net}))

\* the sum of all groups' counts
SumCounts(d) == SumCountsOver(d, DOMAIN d.subnets)

\* the weights of the updates of s, applied in turn to d, summed
RECURSIVE SumWeights(_, _)
SumWeights(d, s) ==
    IF s = <<>> THEN Zero
    ELSE LET r == s[Len(s)]
             before == ApplyAll(d, SubSeq(s, 1, Len(s) - 1))
         IN  Add(SumWeights(d, SubSeq(s, 1, Len(s) - 1)),
                 IF r.ip.kind # "v4" THEN Zero
                 ELSE IF /\ Lt(R(2, 1), RecordOf(before, NetOf(r.ip.addr)).count)
                         /\ Lt(R(3, 5), AvgReward(RecordOf(before, NetOf(r.ip.addr))))
                         /\ Lt(Reward(r.latency, Zero, r.loss, TRUE), R(1, 10))
                      THEN R(1, 5) ELSE One)

\* the model run() started from
ScanStartData == InitData(disk)

\* Stage 1 is over: run() has returned
Stage1Over == pc \in {"speed_test", "stage2", "done"}

\* C13: however the workers interleave and in whatever order the probes
\* complete, at most one update() is in progress, outside it the model is
\* what the completed update() calls give when applied one after the other,
\* and after Stage 1 there was one call per submitted probe and total_runs
\* and the counts have grown by the sum of the weights of the IPv4 results.
C13_NoLostUpdates ==
    /\ Len(upd) <= 1
    /\ (pc = "scan" /\ upd = <<>>) => data = ApplyAll(ScanStartData, applied)
    /\ (pc = "speed_test") =>
        /\ data = ApplyAll(ScanStartData, applied)
        /\ Len(applied) = Len(targets)
        /\ \A i \in Indices(targets) : \E k \in Indices(applied) : applied[k].id = i
        /\ Sub(data.total_runs, ScanStartData.total_runs)
                = SumWeights(ScanStartData, applied)
        /\ Sub(SumCounts(data), SumCounts(ScanStartData))
                = SumWeights(ScanStartData, applied)

\* C13 witness: three probes completed out of submission order, two of them
\* in the same established group, the first of the two lost and dampened
C13_Witness ==
    /\ pc = "speed_test"
    /\ Len(applied) = 3
    /\ applied[1].id = 2 /\ applied[1].loss
    /\ applied[2].id = 1 /\ ~applied[2].loss
    /\ disk = FullFile(EstablishedData)
    /\ data.subnets[256].count = R(21, 5)
    /\ data.total_runs = R(21, 5)

\* the survivors of Stage 1: the results that are not lost
SurvivorIds == {applied[k].id : k \in {j \in Indices(applied) : ~applied[j].loss}}

\* smart_speed_test() has taken its candidates
Stage2Begun == pc = "stage2" \/ cands # <<>> \/ idx > 0

\* C15: when the Stage 2 candidates are taken, every Stage 1 probe has
\* completed and its outcome is in the model, the survivors are sorted in
\* ascending latency, and the candidates are the min(speed_test_range,
\* number of survivors) lowest-latency survivors.
C15_JoinBarrier ==
    Stage2Begun =>
        /\ futs = {} /\ upd = <<>>
        /\ \A i \in Indices(targets) : pool[i].state = "finished"
        /\ Len(applied) = Len(targets)
        /\ idx = 1 => data = ApplyAll(ScanStartData, applied)
        /\ {results[k].id : k \in Indices(results)} = SurvivorIds
        /\ Len(results) = Cardinality(SurvivorIds)
        /\ \A j, k \in Indices(results) :
                j < k => Le(results[j].latency, results[k].latency)
        /\ Len(cands) = Least(config.speed_test_range, Len(results))
        /\ \A k \in Indices(cands) : cands[k].id = results[k].id
        /\ \A k \in Indices(cands), j \in Indices(results) :
                (\A c \in Indices(cands) : cands[c].id # results[j].id)
                    => Le(cands[k].latency, results[j].latency)

\* C15 witness: three survivors, the slowest having completed first, and the
\* one candidate taken is a fastest one
C15_Witness ==
    /\ pc = "stage2"
    /\ idx = 1
    /\ config.speed_test_range = 1
    /\ Len(results) = 3
    /\ applied[1].latency = R(200, 1)
    /\ applied[3].latency = R(50, 1)
    /\ cands[1].latency = R(50, 1)
    /\ cands[1].id = applied[3].id

-----------------------------------------------------------------------------
(* More properties of generate(), checked under SpecGen *)

\* launch_count as MODEL_FILE holds it
StoredLaunches == IF disk.state = "full" THEN disk.content.launch_count ELSE 0

\* C14: launch_count is the stored value plus one, is_cold_start() is true
\* iff launch_count <= 3 or fewer than 100 groups are in the model, and
\* generate() is on its cold path iff that holds.
C14_ColdStartIff ==
    LET cold == data.launch_count <= 3 \/ Cardinality(DOMAIN data.subnets) < 100
    IN  /\ data.launch_count = StoredLaunches + 1
        /\ is_cold_start(data) <=> cold
        /\ pc \in {"cold_while", "cold_for", "cold_check"} => cold
        /\ pc \in {"warm", "warm_pick", "raised"} => ~cold

\* C14 witness: a fourth launch with exactly 100 groups in the model is on
\* the warm path
C14_Witness ==
    /\ pc = "warm_pick"
    /\ data.launch_count = 4
    /\ Cardinality(DOMAIN data.subnets) = 100
    /\ targets # <<>>

-----------------------------------------------------------------------------
(* More properties of UCBManager, checked under Spec *)

\* the last call was a save()
Saved == last.op = "save"
\* the groups the last save() removed
Pruned == DOMAIN last.prev.subnets \ DOMAIN data.subnets
\* what the removed groups' counts came to after the decay
PrunedCounts ==
    SumCountsOver([subnets |-> [k \in Pruned |->
                        Decayed(last.prev.subnets[k], decay_rate)]], Pruned)

\* C16 as stated: every update() and save() changes total_runs by what it
\* changes the sum of the groups' counts by (the same amount for an update,
\* the same factor for a save, a removed group's count leaving both), and
\* total_runs never changes otherwise; from an empty model total_runs is the
\* sum of the counts.
C16_RunsFollowCounts ==
    /\ last.op = "update" =>
            Sub(data.total_runs, last.prev.total_runs)
                = Sub(SumCounts(data), SumCounts(last.prev))
    /\ Saved =>
            Mul(data.total_runs, SumCounts(last.prev))
                = Mul(SumCounts(data), last.prev.total_runs)
    /\ data.total_runs = SumCounts(data)

\* C16 amended: an update() adds the same weight to total_runs and to one
\* group's count, or changes neither; a save() multiplies total_runs and
\* every count by decay_rate; the removal of a group takes its count out of
\* the sum and leaves total_runs alone, so that total_runs is never below
\* the sum of the counts.
C16_RunsFollowCountsButPruning ==
    /\ last.op = "update" =>
            Sub(data.total_runs, last.prev.total_runs)
                = Sub(SumCounts(data), SumCounts(last.prev))
    /\ Saved =>
            /\ data.total_runs = Mul(last.prev.total_runs, decay_rate)
            /\ Add(SumCounts(data), PrunedCounts)
                    = Mul(SumCounts(last.prev), decay_rate)
    /\ Le(SumCounts(data), data.total_runs)
    /\ (data.total_runs # SumCounts(data)) => ops >= 2

\* C16 witness: a save() removed a group and kept another, and total_runs
\* is above the sum of the counts
C16_Witness ==
    /\ Saved
    /\ Pruned # {}
    /\ DOMAIN data.subnets # {}
    /\ Lt(SumCounts(data), data.total_runs)


\* generate() with its thread scheduled: a step of the cold loop that can be
\* taken is taken
FairSpecGen ==
    /\ SpecGen
    /\ WF_vars(ColdWhile)
    /\ WF_vars(\E host \in 1..254 : ColdFor(host))
    /\ WF_vars(ColdCheck)

\* C17: on the cold path the sweep loop always exits, for every list of IPv4
\* ranges and every max_total_count.
C17_ColdLoopExits ==
    (pc = "cold_while") ~> (pc \in {"v6", "v6_pick", "returned"})


V6Targets == {i \in Indices(targets) : targets[i].kind = "v6"}

\* C18: with IPv6 ranges supplied, the returned list holds exactly
\* floor(0.1 * max_total_count) IPv6 addresses, on the cold and on the warm
\* path, each inside one of the supplied IPv6 ranges.
C18_V6CountAndRange ==
    (Returned /\ cidrs_v6 # <<>>) =>
        /\ Cardinality(V6Targets) = max_total_count \div 10
        /\ \A i \in V6Targets : InSomeRange(targets[i], cidrs_v6)

\* C18, the count alone: floor(0.1 * max_total_count) IPv6 addresses are
\* appended when IPv6 ranges are supplied, none otherwise
C18_V6Count ==
    Returned =>
        Cardinality(V6Targets)
            = IF cidrs_v6 # <<>> THEN max_total_count \div 10 ELSE 0

-----------------------------------------------------------------------------
(* The frame of update(), checked under Spec *)

\* C19: update() called with an IPv6 address or with a string that is no
\* address leaves total_runs, launch_count and the whole group mapping as
\* they were.
C19_UpdateIgnoresNonIPv4 ==
    (last.op = "update" /\ last.ip.kind \in {"v6", "bad"}) =>
        /\ data.total_runs = last.prev.total_runs
        /\ data.launch_count = last.prev.launch_count
        /\ DOMAIN data.subnets = DOMAIN last.prev.subnets
        /\ \A net \in DOMAIN data.subnets :
                data.subnets[net] = last.prev.subnets[net]

\* C19 witness: update() was called with an IPv6 address on a model holding
\* a group, and the model is unchanged
C19_Witness ==
    /\ last.op = "update"
    /\ last.ip = V6(1)
    /\ DOMAIN data.subnets = {256}
    /\ data = last.prev

-----------------------------------------------------------------------------
(* UCBManager called with any float for speed: update() takes it as it is   *)

\* the speeds update() is called with: one below zero
AnySpeeds == {R(-5, 1), R(10, 1)}

\* tcp_only is False in these calls: speed is read only then
NextAny ==
    \/ \E ip \in IPs, latency \in Latencies, speed \in AnySpeeds,
          is_loss \in BOOLEAN :
            Update(ip, latency, speed, is_loss, FALSE)
    \/ \E outcome \in WriteOutcomes : Save(outcome)

SpecAny == Init /\ [][NextAny]_vars

\* every group's count is >= 0 and its total_reward within [0, count], and
\* total_runs is >= 0
RecordsInRange ==
    /\ Le(Zero, data.total_runs)
    /\ \A net \in DOMAIN data.subnets :
        /\ Le(Zero, data.subnets[net].count)
        /\ Le(Zero, data.subnets[net].total_reward)
        /\ Le(data.subnets[net].total_reward, data.subnets[net].count)

CurrentSubnet == all_subnets[pos]

\* C21: on the warm path generate() never raises, whatever the IPv4 ranges
\* (also with groups of 2 or fewer addresses that get a quota), every address
\* drawn for a group lies inside that group, and no address is drawn twice
\* for the same group.
C21_WarmNeverRaises ==
    ~ColdRun =>
        /\ pc # "raised"
        /\ pc = "warm_pick" =>
            /\ \A ip \in picked : InNetwork(ip.addr, CurrentSubnet)
            /\ Cardinality(picked) = Cardinality(TargetsOf(CurrentSubnet))
        /\ \A i, j \in V4Targets :
                (i # j /\ NetOf(targets[i].addr) = NetOf(targets[j].addr))
                    => targets[i] # targets[j]
        /\ \A i \in V4Targets : InSomeRange(targets[i], cidrs_v4)

\* C21, for groups of more than 2 addresses: the warm path does not raise,
\* and its addresses are inside their groups and distinct
C21_WarmWideGroups ==
    (~ColdRun /\ \A k \in Indices(cidrs_v4) : NumAddresses(cidrs_v4[k]) > 2) =>
        /\ pc # "raised"
        /\ \A i, j \in V4Targets : i # j => targets[i] # targets[j]
        /\ \A i \in V4Targets : InSomeRange(targets[i], cidrs_v4)

=============================================================================
